---- MODULE Spec2Model ----
(***************************************************************************)
(* Model of the state-transition engine of eth-go                          *)
(* (ethchain/state_transition.go).  A StateTransition session applies one  *)
(* transaction to the ledger store (State): nonce check, gas purchase,     *)
(* gas charging, contract creation, value transfer, initialization script  *)
(* and commit.  Every statement of TransitionState that reads or writes    *)
(* the store is one step of a session, so that the separately fetched      *)
(* account copies (sen, cb, rec) and the order of the writes are kept.     *)
(* The second part models the wire connection (ethwire/messaging.go): the  *)
(* framing of messages, readMessage and the pending queue of Read.         *)
(***************************************************************************)
EXTENDS Integers, FiniteSets, Sequences, TLC

(***************************************************************************)
(* Bounds of the model.                                                    *)
(***************************************************************************)
MaxGas == 2
MaxGasPrice == 1
MaxValue == 1
MaxData == 1
MaxNonce == 1
MaxTx == 1
MaxFrames == 3
InitBalance == 3

(***************************************************************************)
(* Gas schedule (fixed transaction cost, cost per payload byte).           *)
(***************************************************************************)
GasTx == 1
GasData == 1

Sessions == {"s1", "s2"}
Accounts == {"a", "b", "c"}
NoRecipient == ""
Bytes == {"x"}
Codes == {"", "ret"}

Payloads == UNION {[1..n -> Bytes] : n \in 0..MaxData}

Txs ==
    [sender : Accounts, Recipient : Accounts \cup {NoRecipient},
     Value : 0..MaxValue, Gas : 0..MaxGas, GasPrice : 0..MaxGasPrice,
     Data : Payloads, Nonce : 0..MaxNonce]

NoTx ==
    [sender |-> "", Recipient |-> NoRecipient, Value |-> 0, Gas |-> 0,
     GasPrice |-> 0, Data |-> <<>>, Nonce |-> 0]

(***************************************************************************)
(* State objects (accounts).  A state object held by a session is a copy:  *)
(* changing it changes the store only through UpdateStateObject.           *)
(***************************************************************************)
StateObject(addr, amount, nonce, script) ==
    [addr |-> addr, Amount |-> amount, Nonce |-> nonce, script |-> script]

Nil == StateObject("nil", 0, 0, "")

IsNil(obj) == obj.addr = "nil"

NewAccount(addr) == StateObject(addr, 0, 0, "")

\* state.GetAccount: the stored account, or a zero account when absent
GetAccount(t, addr) ==
    IF addr \in DOMAIN t
    THEN StateObject(addr, t[addr].Amount, t[addr].Nonce, t[addr].script)
    ELSE NewAccount(addr)

\* state.UpdateStateObject: the store's entry of the object's address
UpdateStateObject(t, obj) ==
    [x \in DOMAIN t \cup {obj.addr} |->
        IF x = obj.addr
        THEN [Amount |-> obj.Amount, Nonce |-> obj.Nonce, script |-> obj.script]
        ELSE t[x]]

AddAmount(obj, amount) == [obj EXCEPT !.Amount = @ + amount]

SubAmount(obj, amount) == [obj EXCEPT !.Amount = @ - amount]

(***************************************************************************)
(* Transactions.                                                           *)
(***************************************************************************)
CreatesContract(t) == t.Recipient = NoRecipient

GasValue(t) == t.Gas * t.GasPrice

\* the address derived from (sender, nonce)
CreationAddress(t) == "new:" \o t.sender \o ":" \o ToString(t.Nonce)

VARIABLES
    trie,        \* the ledger store: address -> stored account
    states,      \* state.states: addresses with a registered nested state
    ntx,         \* number of sessions started on fresh transactions
    pc,          \* position of each session in TransitionState
    tx,          \* StateTransition.tx
    coinbase,    \* StateTransition.coinbase
    gas,         \* StateTransition.gas
    sen, cb, rec, \* StateTransition.sen / cb / rec (cached copies)
    err,         \* result of TransitionState ("none" while running / on success)
    ret,         \* what the initialization script returned
    used,        \* gas removed from the counter so far
    written,     \* which of its accounts the session has written to the store
    preTrie, preStates, \* the store when the session started
    prevErr,     \* result of the previous application of the same transaction
    afterDone,   \* whether the session was created after the other one returned
    conn,        \* Connection.conn: the bytes that have arrived and are not yet read
    connFrames,  \* the frames the peer has written since the last gathering ended
    nframes,     \* number of frames the peer has written
    rpc,         \* position of the reader in Connection.Read
    buff,        \* readMessages: buff
    pendingMessages, \* Connection.pendingMessages
    delivered,   \* the messages Read has returned, in order
    expected,    \* the messages of the leading well-formed frames of each gathering
    parseLog,    \* the readMessage calls of the last readMessages
    readFault    \* whether a call of Read has panicked

\* the variables of the state transition engine
ledger ==
    <<trie, states, ntx, pc, tx, coinbase, gas, sen, cb, rec, err, ret, used,
      written, preTrie, preStates, prevErr>>

\* the variables of a wire connection
wire ==
    <<conn, connFrames, nframes, rpc, buff, pendingMessages,
      delivered, expected, parseLog, readFault>>

vars == <<ledger, afterDone, wire>>

\* the store before the first transition
Genesis ==
    "a" :> [Amount |-> InitBalance, Nonce |-> 0, script |-> ""]
    @@ "b" :> [Amount |-> 1, Nonce |-> 1, script |-> ""]

Init ==
    /\ trie = Genesis
    /\ states = {}
    /\ ntx = 0
    /\ pc = [s \in Sessions |-> "idle"]
    /\ tx = [s \in Sessions |-> NoTx]
    /\ coinbase = [s \in Sessions |-> ""]
    /\ gas = [s \in Sessions |-> 0]
    /\ sen = [s \in Sessions |-> Nil]
    /\ cb = [s \in Sessions |-> Nil]
    /\ rec = [s \in Sessions |-> Nil]
    /\ err = [s \in Sessions |-> "none"]
    /\ ret = [s \in Sessions |-> ""]
    /\ used = [s \in Sessions |-> 0]
    /\ written = [s \in Sessions |-> {}]
    /\ preTrie = [s \in Sessions |-> <<>>]
    /\ preStates = [s \in Sessions |-> {}]
    /\ prevErr = [s \in Sessions |-> "fresh"]
    /\ afterDone = [s \in Sessions |-> FALSE]
    /\ conn = <<>>
    /\ connFrames = <<>>
    /\ nframes = 0
    /\ rpc = "idle"
    /\ buff = <<>>
    /\ pendingMessages = <<>>
    /\ delivered = <<>>
    /\ expected = <<>>
    /\ parseLog = <<>>
    /\ readFault = FALSE

(***************************************************************************)
(* Helpers of the steps.                                                   *)
(***************************************************************************)
\* return from TransitionState with error e
Return(s, e) ==
    /\ pc' = [pc EXCEPT ![s] = "done"]
    /\ err' = [err EXCEPT ![s] = e]

Goto(s, next) ==
    /\ pc' = [pc EXCEPT ![s] = next]
    /\ UNCHANGED err

\* NewStateTransition(coinbase, tx, state, block)
NewStateTransition(s, t, c, prev) ==
    /\ pc' = [pc EXCEPT ![s] = "sender"]
    /\ tx' = [tx EXCEPT ![s] = t]
    /\ coinbase' = [coinbase EXCEPT ![s] = c]
    /\ gas' = [gas EXCEPT ![s] = 0]
    /\ sen' = [sen EXCEPT ![s] = Nil]
    /\ cb' = [cb EXCEPT ![s] = Nil]
    /\ rec' = [rec EXCEPT ![s] = Nil]
    /\ err' = [err EXCEPT ![s] = "none"]
    /\ ret' = [ret EXCEPT ![s] = ""]
    /\ used' = [used EXCEPT ![s] = 0]
    /\ written' = [written EXCEPT ![s] = {}]
    /\ preTrie' = [preTrie EXCEPT ![s] = trie]
    /\ preStates' = [preStates EXCEPT ![s] = states]
    /\ prevErr' = [prevErr EXCEPT ![s] = prev]
    /\ UNCHANGED <<trie, states>>
    /\ UNCHANGED wire

\* transitions are applied one at a time: no other session is in flight
Exclusive(s) == \A o \in Sessions \ {s} : pc[o] = "idle"

(***************************************************************************)
(* The caller: apply a transaction, apply the same transaction again,      *)
(* drop the session.                                                       *)
(***************************************************************************)
Start(s) ==
    /\ pc[s] = "idle"
    /\ Exclusive(s)
    /\ ntx < MaxTx
    /\ ntx' = ntx + 1
    /\ UNCHANGED afterDone
    /\ \E t \in Txs, c \in Accounts : NewStateTransition(s, t, c, "fresh")

Retry(s) ==
    /\ pc[s] = "done"
    /\ Exclusive(s)
    /\ prevErr[s] = "fresh"
    /\ NewStateTransition(s, tx[s], coinbase[s], err[s])
    /\ UNCHANGED <<ntx, afterDone>>

Discard(s) ==
    /\ pc[s] = "done"
    /\ pc' = [pc EXCEPT ![s] = "idle"]
    /\ tx' = [tx EXCEPT ![s] = NoTx]
    /\ coinbase' = [coinbase EXCEPT ![s] = ""]
    /\ gas' = [gas EXCEPT ![s] = 0]
    /\ sen' = [sen EXCEPT ![s] = Nil]
    /\ cb' = [cb EXCEPT ![s] = Nil]
    /\ rec' = [rec EXCEPT ![s] = Nil]
    /\ err' = [err EXCEPT ![s] = "none"]
    /\ ret' = [ret EXCEPT ![s] = ""]
    /\ used' = [used EXCEPT ![s] = 0]
    /\ written' = [written EXCEPT ![s] = {}]
    /\ preTrie' = [preTrie EXCEPT ![s] = <<>>]
    /\ preStates' = [preStates EXCEPT ![s] = {}]
    /\ prevErr' = [prevErr EXCEPT ![s] = "fresh"]
    /\ UNCHANGED <<trie, states, ntx>>
    /\ UNCHANGED <<afterDone, wire>>

(***************************************************************************)
(* TransitionState, statement by statement.                                *)
(***************************************************************************)
\* sender = self.Sender()
Sender(s) ==
    /\ pc[s] = "sender"
    /\ sen' = [sen EXCEPT ![s] = GetAccount(trie, tx[s].sender)]
    /\ Goto(s, "nonce")
    /\ UNCHANGED <<trie, states, ntx, tx, coinbase, gas, cb, rec, ret, used,
                   written, preTrie, preStates, prevErr>>
    /\ UNCHANGED <<afterDone, wire>>

\* CheckNonce with < for != : a nonce below the sender's is let through
CheckNonce_OnlyLower(s) ==
    /\ pc[s] = "nonce"
    /\ IF sen[s].Nonce < tx[s].Nonce
       THEN Return(s, "nonce") /\ UNCHANGED sen
       ELSE /\ sen' = [sen EXCEPT ![s].Nonce = @ + 1]
            /\ Goto(s, "buygas")
    /\ UNCHANGED <<trie, states, ntx, tx, coinbase, gas, cb, rec, ret, used,
                   written, preTrie, preStates, prevErr>>
    /\ UNCHANGED <<afterDone, wire>>

\* if sender.Nonce != tx.Nonce { return NonceError } ; sender.Nonce += 1
CheckNonce(s) ==
    /\ pc[s] = "nonce"
    /\ IF sen[s].Nonce # tx[s].Nonce
       THEN Return(s, "nonce") /\ UNCHANGED sen
       ELSE /\ sen' = [sen EXCEPT ![s].Nonce = @ + 1]
            /\ Goto(s, "buygas")
    /\ UNCHANGED <<trie, states, ntx, tx, coinbase, gas, cb, rec, ret, used,
                   written, preTrie, preStates, prevErr>>
    /\ UNCHANGED <<afterDone, wire>>

\* StateObject.BuyGas(gas, price): the coinbase is credited gas * price
ObjectBuyGas(obj, g, price) == AddAmount(obj, g * price)

\* BuyGasFunds comparing the balance with tx.Value (the value its message
\* prints) instead of tx.GasValue()
BuyGasFunds_ValueCheck(s) ==
    /\ pc[s] = "buygas"
    /\ IF sen[s].Amount < tx[s].Value
       THEN Return(s, "gasfunds") /\ UNCHANGED cb
       ELSE /\ cb' = [cb EXCEPT ![s] =
                        ObjectBuyGas(GetAccount(trie, coinbase[s]),
                                     tx[s].Gas, tx[s].GasPrice)]
            /\ Goto(s, "buygas_update")
    /\ UNCHANGED <<trie, states, ntx, tx, coinbase, gas, sen, rec, ret, used,
                   written, preTrie, preStates, prevErr>>
    /\ UNCHANGED <<afterDone, wire>>

\* BuyGasFunds crediting and writing the coinbase before the funds check
BuyGasFunds_CreditFirst(s) ==
    /\ pc[s] = "buygas"
    /\ cb' = [cb EXCEPT ![s] =
                ObjectBuyGas(GetAccount(trie, coinbase[s]),
                             tx[s].Gas, tx[s].GasPrice)]
    /\ trie' = UpdateStateObject(trie, cb'[s])
    /\ written' = [written EXCEPT ![s] = @ \cup {"coinbase"}]
    /\ IF sen[s].Amount < GasValue(tx[s])
       THEN Return(s, "gasfunds")
       ELSE Goto(s, "buygas_update")
    /\ UNCHANGED <<states, ntx, tx, coinbase, gas, sen, rec, ret, used,
                   preTrie, preStates, prevErr>>
    /\ UNCHANGED <<afterDone, wire>>

\* BuyGas, up to coinbase.BuyGas: the funds check, the coinbase fetch and credit
BuyGasFunds(s) ==
    /\ pc[s] = "buygas"
    /\ IF sen[s].Amount < GasValue(tx[s])
       THEN Return(s, "gasfunds") /\ UNCHANGED cb
       ELSE /\ cb' = [cb EXCEPT ![s] =
                        ObjectBuyGas(GetAccount(trie, coinbase[s]),
                                     tx[s].Gas, tx[s].GasPrice)]
            /\ Goto(s, "buygas_update")
    /\ UNCHANGED <<trie, states, ntx, tx, coinbase, gas, sen, rec, ret, used,
                   written, preTrie, preStates, prevErr>>
    /\ UNCHANGED <<afterDone, wire>>

\* self.gas.Add(self.gas, amount)
AddGas(g, amount) == g + amount

\* BuyGasUpdate writing the debited sender through together with the coinbase
BuyGasUpdate_WritesSender(s) ==
    /\ pc[s] = "buygas_update"
    /\ sen' = [sen EXCEPT ![s] = SubAmount(@, GasValue(tx[s]))]
    /\ trie' = UpdateStateObject(UpdateStateObject(trie, cb[s]), sen'[s])
    /\ written' = [written EXCEPT ![s] = @ \cup {"coinbase"}]
    /\ gas' = [gas EXCEPT ![s] = AddGas(@, tx[s].Gas)]
    /\ Goto(s, "receiver")
    /\ UNCHANGED <<states, ntx, tx, coinbase, cb, rec, ret, used,
                   preTrie, preStates, prevErr>>
    /\ UNCHANGED <<afterDone, wire>>

\* BuyGas, the rest: the coinbase is written through, the gas is added to
\* the counter and the sender copy is debited
BuyGasUpdate(s) ==
    /\ pc[s] = "buygas_update"
    /\ trie' = UpdateStateObject(trie, cb[s])
    /\ written' = [written EXCEPT ![s] = @ \cup {"coinbase"}]
    /\ gas' = [gas EXCEPT ![s] = AddGas(@, tx[s].Gas)]
    /\ sen' = [sen EXCEPT ![s] = SubAmount(@, GasValue(tx[s]))]
    /\ Goto(s, "receiver")
    /\ UNCHANGED <<states, ntx, tx, coinbase, cb, rec, ret, used,
                   preTrie, preStates, prevErr>>
    /\ UNCHANGED <<afterDone, wire>>

\* Receiver with the value-funds check of transferValue made before the gas
\* charges
Receiver_ValueCheckFirst(s) ==
    /\ pc[s] = "receiver"
    /\ IF sen[s].Amount < tx[s].Value
       THEN Return(s, "valuefunds") /\ UNCHANGED rec
       ELSE /\ rec' = [rec EXCEPT ![s] =
                        IF CreatesContract(tx[s]) THEN Nil
                        ELSE GetAccount(trie, tx[s].Recipient)]
            /\ Goto(s, "gastx")
    /\ UNCHANGED <<trie, states, ntx, tx, coinbase, gas, sen, cb, ret, used,
                   written, preTrie, preStates, prevErr>>
    /\ UNCHANGED <<afterDone, wire>>

\* Receiver reading the store as it was when the session started
Receiver_FromSnapshot(s) ==
    /\ pc[s] = "receiver"
    /\ rec' = [rec EXCEPT ![s] =
                 IF CreatesContract(tx[s]) THEN Nil
                 ELSE GetAccount(preTrie[s], tx[s].Recipient)]
    /\ Goto(s, "gastx")
    /\ UNCHANGED <<trie, states, ntx, tx, coinbase, gas, sen, cb, ret, used,
                   written, preTrie, preStates, prevErr>>
    /\ UNCHANGED <<afterDone, wire>>

\* receiver = self.Receiver()
Receiver(s) ==
    /\ pc[s] = "receiver"
    /\ rec' = [rec EXCEPT ![s] =
                 IF CreatesContract(tx[s]) THEN Nil
                 ELSE GetAccount(trie, tx[s].Recipient)]
    /\ Goto(s, "gastx")
    /\ UNCHANGED <<trie, states, ntx, tx, coinbase, gas, sen, cb, ret, used,
                   written, preTrie, preStates, prevErr>>
    /\ UNCHANGED <<afterDone, wire>>

\* UseGas with the comparison turned round
OutOfGas_Reversed(g, amount) == amount < g

\* UseGas: whether the counter covers the amount
OutOfGas(g, amount) == g < amount

\* UseGas(amount), then continue at next
UseGas(s, amount, next) ==
    /\ IF OutOfGas(gas[s], amount)
       THEN Return(s, "outofgas") /\ UNCHANGED <<gas, used>>
       ELSE /\ gas' = [gas EXCEPT ![s] = @ - amount]
            /\ used' = [used EXCEPT ![s] = @ + amount]
            /\ Goto(s, next)
    /\ UNCHANGED <<trie, states, ntx, tx, coinbase, sen, cb, rec, ret,
                   written, preTrie, preStates, prevErr>>
    /\ UNCHANGED <<afterDone, wire>>

\* self.UseGas(GasTx)
ChargeGasTx(s) ==
    /\ pc[s] = "gastx"
    /\ UseGas(s, GasTx, "gasdata")

\* dataPrice without the payload length
DataPrice_Flat(t) == GasData

\* dataPrice = len(tx.Data) * GasData
DataPrice(t) == Len(t.Data) * GasData

\* self.UseGas(dataPrice); the next statement is the receiver == nil test
ChargeGasData(s) ==
    /\ pc[s] = "gasdata"
    /\ UseGas(s, DataPrice(tx[s]), IF IsNil(rec[s]) THEN "create" ELSE "transfer")

\* receiver = self.MakeStateObject(self.state, tx): MakeContract gives a new
\* account at the creation address, or nil when the creation is rejected; the
\* new account's nested state is registered under the creation address
MakeStateObject(s) ==
    /\ pc[s] = "create"
    /\ \E contractOk \in BOOLEAN :
         IF contractOk
         THEN /\ rec' = [rec EXCEPT ![s] = NewAccount(CreationAddress(tx[s]))]
              /\ states' = states \cup {CreationAddress(tx[s])}
              /\ Goto(s, "transfer")
         ELSE Return(s, "create") /\ UNCHANGED <<rec, states>>
    /\ UNCHANGED <<trie, ntx, tx, coinbase, gas, sen, cb, ret, used,
                   written, preTrie, preStates, prevErr>>
    /\ UNCHANGED <<afterDone, wire>>

\* transferValue without the funds check
TransferValue_NoCheck(s) ==
    /\ pc[s] = "transfer"
    /\ sen' = [sen EXCEPT ![s] = SubAmount(@, tx[s].Value)]
    /\ rec' = [rec EXCEPT ![s] = AddAmount(@, tx[s].Value)]
    /\ Goto(s, IF CreatesContract(tx[s]) THEN "init" ELSE "commit_sender")
    /\ UNCHANGED <<trie, states, ntx, tx, coinbase, gas, cb, ret, used,
                   written, preTrie, preStates, prevErr>>
    /\ UNCHANGED <<afterDone, wire>>

\* self.transferValue(sender, receiver)
TransferValue(s) ==
    /\ pc[s] = "transfer"
    /\ IF sen[s].Amount < tx[s].Value
       THEN Return(s, "valuefunds") /\ UNCHANGED <<sen, rec>>
       ELSE /\ sen' = [sen EXCEPT ![s] = SubAmount(@, tx[s].Value)]
            /\ rec' = [rec EXCEPT ![s] = AddAmount(@, tx[s].Value)]
            /\ Goto(s, IF CreatesContract(tx[s]) THEN "init" ELSE "commit_sender")
    /\ UNCHANGED <<trie, states, ntx, tx, coinbase, gas, cb, ret, used,
                   written, preTrie, preStates, prevErr>>
    /\ UNCHANGED <<afterDone, wire>>

\* InitScript without receiver.script = code
InitScript_CodeDropped(s) ==
    /\ pc[s] = "init"
    /\ \E g \in 0..gas[s] :
         /\ gas' = [gas EXCEPT ![s] = @ - g]
         /\ used' = [used EXCEPT ![s] = @ + g]
    /\ \/ Return(s, "init") /\ UNCHANGED <<rec, ret>>
       \/ \E code \in Codes :
            /\ ret' = [ret EXCEPT ![s] = code]
            /\ UNCHANGED rec
            /\ Goto(s, "commit_sender")
    /\ UNCHANGED <<trie, states, ntx, tx, coinbase, sen, cb,
                   written, preTrie, preStates, prevErr>>
    /\ UNCHANGED <<afterDone, wire>>

\* code, err := self.Eval(receiver.Init(), receiver): the script engine runs
\* on the remaining gas and returns an error or the code of the new account
InitScript(s) ==
    /\ pc[s] = "init"
    /\ \E g \in 0..gas[s] :
         /\ gas' = [gas EXCEPT ![s] = @ - g]
         /\ used' = [used EXCEPT ![s] = @ + g]
    /\ \/ Return(s, "init") /\ UNCHANGED <<rec, ret>>
       \/ \E code \in Codes :
            /\ ret' = [ret EXCEPT ![s] = code]
            /\ rec' = [rec EXCEPT ![s].script = code]
            /\ Goto(s, "commit_sender")
    /\ UNCHANGED <<trie, states, ntx, tx, coinbase, sen, cb,
                   written, preTrie, preStates, prevErr>>
    /\ UNCHANGED <<afterDone, wire>>

\* self.state.UpdateStateObject(sender)
CommitSender(s) ==
    /\ pc[s] = "commit_sender"
    /\ trie' = UpdateStateObject(trie, sen[s])
    /\ written' = [written EXCEPT ![s] = @ \cup {"sender"}]
    /\ Goto(s, "commit_receiver")
    /\ UNCHANGED <<states, ntx, tx, coinbase, gas, sen, cb, rec, ret, used,
                   preTrie, preStates, prevErr>>
    /\ UNCHANGED <<afterDone, wire>>

\* self.state.UpdateStateObject(receiver) ; return nil
CommitReceiver(s) ==
    /\ pc[s] = "commit_receiver"
    /\ trie' = UpdateStateObject(trie, rec[s])
    /\ written' = [written EXCEPT ![s] = @ \cup {"receiver"}]
    /\ Return(s, "none")
    /\ UNCHANGED <<states, ntx, tx, coinbase, gas, sen, cb, rec, ret, used,
                   preTrie, preStates, prevErr>>
    /\ UNCHANGED <<afterDone, wire>>

\* the statements that call into the store, the script engine or the logger,
\* where an unexpected fault can surface
FaultPoints ==
    {"buygas_update", "receiver", "create", "transfer", "init",
     "commit_sender", "commit_receiver"}

\* defer func() { if r := recover(); r != nil { err = fmt.Errorf(...) } }():
\* the call of the current statement panics; the panic is returned as an error
Recover(s) ==
    /\ pc[s] \in FaultPoints
    /\ Return(s, "panic")
    /\ UNCHANGED <<trie, states, ntx, tx, coinbase, gas, sen, cb, rec, ret,
                   used, written, preTrie, preStates, prevErr>>
    /\ UNCHANGED <<afterDone, wire>>

TransitionState(s) ==
    \/ Sender(s)
    \/ CheckNonce(s)
    \/ BuyGasFunds(s)
    \/ BuyGasUpdate(s)
    \/ Receiver(s)
    \/ ChargeGasTx(s)
    \/ ChargeGasData(s)
    \/ MakeStateObject(s)
    \/ TransferValue(s)
    \/ InitScript(s)
    \/ CommitSender(s)
    \/ CommitReceiver(s)
    \/ Recover(s)

Next ==
    \E s \in Sessions :
        \/ Start(s)
        \/ Retry(s)
        \/ Discard(s)
        \/ TransitionState(s)

Spec == Init /\ [][Next]_vars

(***************************************************************************)
(* Two sessions on the same store without the caller's serialization: each *)
(* session is created once, at any time, and the statements of the two     *)
(* TransitionState calls interleave.                                       *)
(***************************************************************************)
ConcTxs ==
    [sender : {"a", "b"}, Recipient : Accounts \cup {NoRecipient},
     Value : {MaxValue}, Gas : {GasTx}, GasPrice : {MaxGasPrice},
     Data : {<<>>}, Nonce : 0..MaxNonce]

\* NewStateTransition by a caller that does not wait for the other session
StartConc(s) ==
    /\ pc[s] = "idle"
    /\ afterDone' = [afterDone EXCEPT ![s] =
                        \E o \in Sessions \ {s} : pc[o] = "done"]
    /\ UNCHANGED ntx
    /\ \E t \in ConcTxs, c \in Accounts : NewStateTransition(s, t, c, "fresh")

NextConc ==
    \E s \in Sessions :
        \/ StartConc(s)
        \/ TransitionState(s)

SpecConc == Init /\ [][NextConc]_vars

(***************************************************************************)
(* The wire connection (ethwire/messaging.go).  A frame is the magic       *)
(* token, the payload length in 4 bytes (big endian) and the payload; the  *)
(* payload is the message type followed by the message data.  Bytes are    *)
(* numbers in 0..255.                                                      *)
(***************************************************************************)
MagicToken == <<34, 64, 8, 145>>

\* magic token and payload length: the first 8 bytes of a frame
HeaderLen == 8

\* b := make([]byte, 1440): the most one conn.Read returns
ReadSize == 1440

NoMsg == [Type |-> 255, Data |-> <<255>>]

\* the messages the peer sends
Msgs == {[Type |-> 2, Data |-> <<>>], [Type |-> 3, Data |-> <<7>>]}

\* ethutil.NumberToBytes(uint32(n), 32)
NumberToBytes(n) ==
    <<(n \div 16777216) % 256, (n \div 65536) % 256, (n \div 256) % 256, n % 256>>

\* ethutil.BytesToNumber(b) of 4 bytes
BytesToNumber(b) == b[1] * 16777216 + b[2] * 65536 + b[3] * 256 + b[4]

\* ethutil.NewValue(slice).Encode(): the type, then the data
Encode(msg) == <<msg.Type>> \o msg.Data

\* decoder.Get(0).Uint() and decoder.SliceFrom(1)
Decode(message) ==
    IF message = <<>> THEN [Type |-> 0, Data |-> <<>>]
    ELSE [Type |-> Head(message), Data |-> Tail(message)]

\* Connection.Write: what goes on the wire for a message
Pack(msg) == MagicToken \o NumberToBytes(Len(Encode(msg))) \o Encode(msg)

\* what a peer writes: well-formed frames, a frame with a wrong magic token,
\* a frame that declares more payload than it carries, a truncated header
Frames ==
    {[bytes |-> Pack(msg), good |-> TRUE, msg |-> msg] : msg \in Msgs}
    \cup {[bytes |-> <<34, 64, 8, 146>> \o NumberToBytes(1) \o <<2>>,
           good |-> FALSE, msg |-> NoMsg],
          [bytes |-> MagicToken \o <<0, 0, 0, 255>> \o <<2>>,
           good |-> FALSE, msg |-> NoMsg],
          [bytes |-> MagicToken \o <<0, 0>>, good |-> FALSE, msg |-> NoMsg]}

\* data[from:] with from counted from 0
SliceFrom(data, from) == SubSeq(data, from + 1, Len(data))

\* one call of readMessage / ReadMessage: its result, and "fault" when it
\* panics.  declared / available are the length field and the bytes after
\* the header.
Result(kind, msg, remaining, declared, available) ==
    [kind |-> kind, msg |-> msg, remaining |-> remaining,
     declared |-> declared, available |-> available]

ReadMessage(data) ==
    IF Len(data) = 0 THEN Result("done", NoMsg, <<>>, 0, 0)
    ELSE IF Len(data) <= HeaderLen THEN Result("invalid", NoMsg, <<>>, 0, 0)
    ELSE IF SubSeq(data, 1, 4) # MagicToken
    THEN Result("magic", NoMsg, <<>>, 0, Len(data) - HeaderLen)
    ELSE LET messageLength == BytesToNumber(SubSeq(data, 5, 8))
             available == Len(data) - HeaderLen
         IN  IF HeaderLen + messageLength > Len(data)
             THEN \* remaining = data[8+messageLength:] is out of range
                  Result("fault", NoMsg, <<>>, messageLength, available)
             ELSE IF messageLength > available
             THEN Result("length", NoMsg, <<>>, messageLength, available)
             ELSE Result("msg",
                         Decode(SubSeq(data, HeaderLen + 1, HeaderLen + messageLength)),
                         SliceFrom(data, HeaderLen + messageLength),
                         messageLength, available)

\* the loop of readMessages over the gathered bytes: the messages appended to
\* pendingMessages and the calls made; a panic of readMessage is recovered
\* and ends the loop
RECURSIVE ParseLoop(_, _, _)
ParseLoop(data, msgs, log) ==
    LET r == ReadMessage(data)
        entry == [kind |-> r.kind, declared |-> r.declared,
                  available |-> r.available]
    IN  IF r.kind \in {"done", "fault"}
        THEN [msgs |-> msgs, log |-> Append(log, entry)]
        ELSE ParseLoop(r.remaining,
                       IF r.kind = "msg" THEN Append(msgs, r.msg) ELSE msgs,
                       Append(log, entry))

\* the messages of the well-formed frames before the first malformed one
RECURSIVE LeadingMessages(_)
LeadingMessages(frames) ==
    IF frames = <<>> \/ ~Head(frames).good THEN <<>>
    ELSE <<Head(frames).msg>> \o LeadingMessages(Tail(frames))

\* the peer writes a frame
PeerSend ==
    /\ nframes < MaxFrames
    /\ \E f \in Frames :
         /\ conn' = conn \o f.bytes
         /\ connFrames' = Append(connFrames, f)
    /\ nframes' = nframes + 1
    /\ UNCHANGED <<rpc, buff, pendingMessages, delivered, expected, parseLog,
                   readFault>>
    /\ UNCHANGED <<ledger, afterDone>>

\* Read: if len(self.pendingMessages) == 0 { self.readMessages() }
ReadCall ==
    /\ rpc = "idle"
    /\ IF Len(pendingMessages) = 0
       THEN rpc' = "gather" /\ buff' = <<>>
       ELSE rpc' = "return" /\ UNCHANGED buff
    /\ UNCHANGED <<conn, connFrames, nframes, pendingMessages, delivered,
                   expected, parseLog, readFault>>
    /\ UNCHANGED <<ledger, afterDone>>

\* readMessages: n, _ := self.conn.Read(b) with n > 0 ; buff = append(buff, b[:n]...)
NetRead ==
    /\ rpc = "gather"
    /\ \E n \in 1..Len(conn) :
         /\ n <= ReadSize
         /\ buff' = buff \o SubSeq(conn, 1, n)
         /\ conn' = SliceFrom(conn, n)
    /\ UNCHANGED <<connFrames, nframes, rpc, pendingMessages, delivered,
                   expected, parseLog, readFault>>
    /\ UNCHANGED <<ledger, afterDone>>

\* readMessages: the read deadline passes with no byte (n == 0), the loop is
\* left and the gathered bytes are parsed into pendingMessages
NetTimeout ==
    /\ rpc = "gather"
    /\ conn = <<>>
    /\ LET parsed == ParseLoop(buff, <<>>, <<>>)
       IN  /\ pendingMessages' = pendingMessages \o parsed.msgs
           /\ parseLog' = parsed.log
    /\ expected' = expected \o LeadingMessages(connFrames)
    /\ connFrames' = <<>>
    /\ buff' = <<>>
    /\ rpc' = "return"
    /\ UNCHANGED <<conn, nframes, delivered, readFault>>
    /\ UNCHANGED <<ledger, afterDone>>

\* ReadReturn that leaves the returned message in the queue
ReadReturn_KeepsHead ==
    /\ rpc = "return"
    /\ IF Len(pendingMessages) = 0
       THEN readFault' = TRUE /\ UNCHANGED delivered
       ELSE /\ delivered' = Append(delivered, pendingMessages[1])
            /\ UNCHANGED readFault
    /\ rpc' = "idle"
    /\ UNCHANGED <<conn, connFrames, nframes, buff, pendingMessages, expected,
                   parseLog>>
    /\ UNCHANGED <<ledger, afterDone>>

\* Read: ret := self.pendingMessages[0] ; pendingMessages = pendingMessages[1:] ;
\* return ret.  The index panics when the queue is empty.
ReadReturn ==
    /\ rpc = "return"
    /\ IF Len(pendingMessages) = 0
       THEN readFault' = TRUE /\ UNCHANGED <<delivered, pendingMessages>>
       ELSE /\ delivered' = Append(delivered, pendingMessages[1])
            /\ pendingMessages' = Tail(pendingMessages)
            /\ UNCHANGED readFault
    /\ rpc' = "idle"
    /\ UNCHANGED <<conn, connFrames, nframes, buff, expected, parseLog>>
    /\ UNCHANGED <<ledger, afterDone>>

NextWire ==
    \/ PeerSend
    \/ ReadCall
    \/ NetRead
    \/ NetTimeout
    \/ ReadReturn

SpecWire == Init /\ [][NextWire]_vars

(***************************************************************************)
(* What a caller observes of a finished transition.                        *)
(***************************************************************************)
Done(s) == pc[s] = "done"

Succeeded(s) == Done(s) /\ err[s] = "none"

Failed(s, errors) == Done(s) /\ err[s] \in errors

\* the stored balance / nonce / code of an address, as get(address) shows them
Balance(t, a) == GetAccount(t, a).Amount

NonceOf(t, a) == GetAccount(t, a).Nonce

\* the stored entry of an address: empty when nothing is stored under it
Entry(t, a) == IF a \in DOMAIN t THEN {t[a]} ELSE {}

\* the address of the account the transition transfers to
ReceiverAddress(t) ==
    IF CreatesContract(t) THEN CreationAddress(t) ELSE t.Recipient

\* the store is as it was when the session started
StoreUnchanged(s) == trie = preTrie[s] /\ states = preStates[s]

\* the proposer's entry shows the fee credit and nothing else has changed
OnlyProposerCredited(s) ==
    /\ coinbase[s] \in DOMAIN trie
    /\ trie[coinbase[s]].Amount
         = Balance(preTrie[s], coinbase[s]) + GasValue(tx[s])
    /\ trie[coinbase[s]].Nonce = NonceOf(preTrie[s], coinbase[s])
    /\ trie[coinbase[s]].script = GetAccount(preTrie[s], coinbase[s]).script
    /\ \A a \in (DOMAIN trie \cup DOMAIN preTrie[s]) \ {coinbase[s]} :
         Entry(trie, a) = Entry(preTrie[s], a)

(***************************************************************************)
(* C1: after every successful transition the sender's stored balance is    *)
(* >= 0 and equals balance_before - gasLimit*gasPrice - value, whatever    *)
(* the sender, recipient and proposer addresses are.                       *)
(***************************************************************************)
C1_SenderBalanceExact ==
    \A s \in Sessions :
        Succeeded(s) =>
            /\ Balance(trie, tx[s].sender) >= 0
            /\ Balance(trie, tx[s].sender)
                 = Balance(preTrie[s], tx[s].sender)
                   - GasValue(tx[s]) - tx[s].Value

(***************************************************************************)
(* C2: a transaction whose nonce differs from the sender's stored nonce    *)
(* fails with the nonce error and the store is unchanged: no account has   *)
(* been written.                                                           *)
(***************************************************************************)
C2_NonceMismatchRejected ==
    \A s \in Sessions :
        (Done(s) /\ tx[s].Nonce # NonceOf(preTrie[s], tx[s].sender)) =>
            /\ err[s] = "nonce"
            /\ written[s] = {}
            /\ StoreUnchanged(s)

C2_Witness ==
    \E s \in Sessions :
        /\ Done(s)
        /\ tx[s].Nonce # NonceOf(preTrie[s], tx[s].sender)
        /\ Balance(preTrie[s], tx[s].sender) >= GasValue(tx[s]) + tx[s].Value
        /\ GasValue(tx[s]) > 0
        /\ err[s] = "nonce"

(***************************************************************************)
(* C3: with a matching nonce and a sender balance below gasLimit*gasPrice  *)
(* the transition fails with the insufficient-gas-funds error and nothing  *)
(* is written: stored balance and nonce of the sender are unchanged and    *)
(* the proposer is not credited.                                           *)
(***************************************************************************)
C3_InsufficientGasFundsAtomic ==
    \A s \in Sessions :
        (/\ Done(s)
         /\ tx[s].Nonce = NonceOf(preTrie[s], tx[s].sender)
         /\ Balance(preTrie[s], tx[s].sender) < GasValue(tx[s])) =>
            /\ err[s] = "gasfunds"
            /\ written[s] = {}
            /\ StoreUnchanged(s)
            /\ NonceOf(trie, tx[s].sender) = NonceOf(preTrie[s], tx[s].sender)
            /\ Balance(trie, coinbase[s]) = Balance(preTrie[s], coinbase[s])

C3_Witness ==
    \E s \in Sessions :
        /\ Done(s)
        /\ tx[s].Nonce = NonceOf(preTrie[s], tx[s].sender)
        /\ Balance(preTrie[s], tx[s].sender) < GasValue(tx[s])
        /\ Balance(preTrie[s], tx[s].sender) > 0
        /\ err[s] = "gasfunds"
        /\ sen[s].Nonce = NonceOf(trie, tx[s].sender) + 1

(***************************************************************************)
(* C4: when the transition fails after the gas purchase (out of gas,       *)
(* insufficient value funds, contract creation failure, initialization     *)
(* failure) the proposer's stored balance has grown by gasLimit*gasPrice   *)
(* and the stored sender and receiver entries are as before the call.      *)
(* C4_ProposerPaidSenderReceiverUntouched is the claim as stated;          *)
(* C4_OnlyProposerEntryChanged is the claim for the entries other than the *)
(* proposer's own.                                                         *)
(***************************************************************************)
LateFailures == {"outofgas", "valuefunds", "create", "init"}

C4_ProposerPaidSenderReceiverUntouched ==
    \A s \in Sessions :
        Failed(s, LateFailures) =>
            /\ Balance(trie, coinbase[s])
                 = Balance(preTrie[s], coinbase[s]) + GasValue(tx[s])
            /\ GetAccount(trie, tx[s].sender)
                 = GetAccount(preTrie[s], tx[s].sender)
            /\ GetAccount(trie, ReceiverAddress(tx[s]))
                 = GetAccount(preTrie[s], ReceiverAddress(tx[s]))

C4_OnlyProposerEntryChanged ==
    \A s \in Sessions :
        Failed(s, LateFailures) =>
            /\ written[s] = {"coinbase"}
            /\ OnlyProposerCredited(s)

C4_Witness ==
    \E s \in Sessions :
        /\ Failed(s, {"valuefunds"})
        /\ GasValue(tx[s]) > 0
        /\ coinbase[s] = tx[s].sender
        /\ Balance(trie, tx[s].sender) > Balance(preTrie[s], tx[s].sender)

(***************************************************************************)
(* C5: when a contract creation fails after the new account was            *)
(* instantiated (insufficient value funds, initialization failure) the     *)
(* store holds no trace of the new account: nothing is registered under    *)
(* the creation address and only the proposer credit has changed.          *)
(***************************************************************************)
C5_NoTraceOfNewAccount ==
    \A s \in Sessions :
        (Failed(s, {"valuefunds", "init"}) /\ CreatesContract(tx[s])) =>
            /\ CreationAddress(tx[s]) \notin DOMAIN trie
            /\ CreationAddress(tx[s]) \notin states
            /\ states = preStates[s]
            /\ OnlyProposerCredited(s)

(***************************************************************************)
(* C6: the gas counter is never negative, the gas removed from it never    *)
(* exceeds the purchased gasLimit, and a charge greater than the counter   *)
(* returns the out-of-gas error and leaves the counter as it was (a charge *)
(* within the counter is subtracted from it).                              *)
(***************************************************************************)
ChargeOf(p, t) == IF p = "gastx" THEN GasTx ELSE DataPrice(t)

C6_GasConservation ==
    /\ [](\A s \in Sessions : gas[s] >= 0 /\ used[s] <= tx[s].Gas)
    /\ [][\A s \in Sessions : \A p \in {"gastx", "gasdata"} :
            (pc[s] = p /\ pc'[s] # p) =>
                IF ChargeOf(p, tx[s]) > gas[s]
                THEN err'[s] = "outofgas" /\ gas'[s] = gas[s]
                ELSE err'[s] = "none" /\ gas'[s] = gas[s] - ChargeOf(p, tx[s])]_vars

C6_Witness ==
    \E s \in Sessions :
        /\ Failed(s, {"outofgas"})
        /\ used[s] = GasTx
        /\ gas[s] = tx[s].Gas - GasTx
        /\ gas[s] < DataPrice(tx[s])

(***************************************************************************)
(* C7: after a successful transition to an existing recipient the store    *)
(* holds sender nonce = nonce_before + 1, recipient balance =              *)
(* balance_before + value, proposer balance = balance_before +             *)
(* gasLimit*gasPrice.                                                      *)
(***************************************************************************)
C7_TransferOutcome ==
    \A s \in Sessions :
        (Succeeded(s) /\ ~CreatesContract(tx[s])) =>
            /\ NonceOf(trie, tx[s].sender)
                 = NonceOf(preTrie[s], tx[s].sender) + 1
            /\ Balance(trie, tx[s].Recipient)
                 = Balance(preTrie[s], tx[s].Recipient) + tx[s].Value
            /\ Balance(trie, coinbase[s])
                 = Balance(preTrie[s], coinbase[s]) + GasValue(tx[s])

(***************************************************************************)
(* C8: a successful contract creation leaves in the store an account at    *)
(* the creation address whose code is the byte sequence the script engine  *)
(* returned and whose balance is the transferred value.                    *)
(***************************************************************************)
C8_ContractCreated ==
    \A s \in Sessions :
        (Succeeded(s) /\ CreatesContract(tx[s])) =>
            /\ CreationAddress(tx[s]) \in DOMAIN trie
            /\ trie[CreationAddress(tx[s])].script = ret[s]
            /\ trie[CreationAddress(tx[s])].Amount = tx[s].Value

C8_Witness ==
    \E s \in Sessions :
        /\ Succeeded(s)
        /\ CreatesContract(tx[s])
        /\ tx[s].Value > 0
        /\ ret[s] # ""
        /\ CreationAddress(tx[s]) \notin DOMAIN preTrie[s]
        /\ trie[CreationAddress(tx[s])].script = ret[s]

(***************************************************************************)
(* C9: a transaction that fails with the nonce error, the                  *)
(* insufficient-gas-funds error or the insufficient-value-funds error      *)
(* leaves the store identical, and applied again to that store it yields   *)
(* the identical error and the identical store.                            *)
(* C9_IdempotentFailure is the claim as stated; C9_IdempotentEarlyFailure  *)
(* is the claim for the two errors raised before the gas purchase, with    *)
(* the value-funds failure leaving the proposer credit in the store.       *)
(***************************************************************************)
IdempotentUnder(errors) ==
    \A s \in Sessions :
        /\ Failed(s, errors) => StoreUnchanged(s)
        /\ (Done(s) /\ prevErr[s] \in errors) =>
               err[s] = prevErr[s] /\ StoreUnchanged(s)

C9_IdempotentFailure == IdempotentUnder({"nonce", "gasfunds", "valuefunds"})

C9_IdempotentEarlyFailure ==
    /\ IdempotentUnder({"nonce", "gasfunds"})
    /\ \A s \in Sessions :
         Failed(s, {"valuefunds"}) => OnlyProposerCredited(s)

C9_Witness ==
    \E s \in Sessions :
        /\ Done(s)
        /\ prevErr[s] = "gasfunds"
        /\ err[s] = "gasfunds"
        /\ Balance(trie, tx[s].sender) > 0

(***************************************************************************)
(* C10: a fault raised during TransitionState is returned as an error and  *)
(* the caller never sees a partially applied transition: either both the   *)
(* sender and the receiver have been written to the store or neither has.  *)
(***************************************************************************)
C10_FaultNeverPartial ==
    \A s \in Sessions :
        Failed(s, {"panic"}) =>
            ("sender" \in written[s] <=> "receiver" \in written[s])

C12_ReplayRejected ==
    \A s \in Sessions :
        (Done(s) /\ prevErr[s] = "none") => err[s] = "nonce"

(***************************************************************************)
(* C15: the error TransitionState returns is that of the first failing     *)
(* step in the order nonce check, gas-funds check, base gas charge, data   *)
(* gas charge, contract creation, value-funds check, initialization, and   *)
(* no step after the failing one has had an effect: nothing is written     *)
(* before the gas purchase, only the proposer is written after it, nothing *)
(* is registered before the creation and no gas is charged past the        *)
(* failing charge.                                                         *)
(***************************************************************************)
NonceFails(s) == tx[s].Nonce # NonceOf(preTrie[s], tx[s].sender)

GasFundsFail(s) == Balance(preTrie[s], tx[s].sender) < GasValue(tx[s])

BaseGasFails(s) == tx[s].Gas < GasTx

DataGasFails(s) == tx[s].Gas - GasTx < DataPrice(tx[s])

\* the creation step ran and gave no account
CreationFails(s) == CreatesContract(tx[s]) /\ IsNil(rec[s])

ValueFundsFail(s) ==
    Balance(preTrie[s], tx[s].sender) - GasValue(tx[s]) < tx[s].Value

\* the error of the first failing step of a finished, fault-free transition
FirstFailure(s) ==
    IF NonceFails(s) THEN "nonce"
    ELSE IF GasFundsFail(s) THEN "gasfunds"
    ELSE IF BaseGasFails(s) \/ DataGasFails(s) THEN "outofgas"
    ELSE IF CreationFails(s) THEN "create"
    ELSE IF ValueFundsFail(s) THEN "valuefunds"
    ELSE IF err[s] = "init" THEN "init"
    ELSE "none"

\* the steps after the one that returned error e have had no effect
NoLaterEffect(s, e) ==
    /\ e \in {"nonce", "gasfunds"} =>
          /\ written[s] = {} /\ StoreUnchanged(s)
          /\ gas[s] = 0 /\ used[s] = 0
    /\ e \in LateFailures => written[s] = {"coinbase"}
    /\ e = "outofgas" =>
          /\ states = preStates[s]
          /\ used[s] = IF BaseGasFails(s) THEN 0 ELSE GasTx
    /\ e = "create" => states = preStates[s]
    /\ e \in {"create", "valuefunds"} =>
          /\ used[s] = GasTx + DataPrice(tx[s])
          /\ ret[s] = ""
    /\ e = "init" => CreatesContract(tx[s])

C15_FirstFailingStep ==
    \A s \in Sessions :
        (Done(s) /\ err[s] # "panic") =>
            /\ err[s] = FirstFailure(s)
            /\ NoLaterEffect(s, err[s])

C15_Witness ==
    \E s \in Sessions :
        /\ Failed(s, {"nonce"})
        /\ NonceFails(s)
        /\ GasFundsFail(s)
        /\ ValueFundsFail(s)
        /\ DataGasFails(s)
        /\ written[s] = {}

(***************************************************************************)
(* C16: with a matching nonce and sufficient gas funds the transition      *)
(* fails with the out-of-gas error exactly when                            *)
(* gasLimit < GasTx + len(payload) * GasData; otherwise the gas counter    *)
(* after both charges is gasLimit - GasTx - len(payload) * GasData, and    *)
(* that is the counter the script engine is started on.                    *)
(***************************************************************************)
GasNeeded(t) == GasTx + Len(t.Data) * GasData

\* the statements between the data gas charge and the end of the script
AfterCharges == {"create", "transfer", "init"}

C16_OutOfGasExactly ==
    \A s \in Sessions :
        /\ (Done(s) /\ ~NonceFails(s) /\ ~GasFundsFail(s) /\ err[s] # "panic") =>
               (err[s] = "outofgas" <=> tx[s].Gas < GasNeeded(tx[s]))
        /\ pc[s] \in AfterCharges =>
               /\ tx[s].Gas >= GasNeeded(tx[s])
               /\ gas[s] = tx[s].Gas - GasNeeded(tx[s])
               /\ used[s] = GasNeeded(tx[s])

C16_Witness ==
    \E s \in Sessions :
        /\ pc[s] = "init"
        /\ Len(tx[s].Data) > 0
        /\ tx[s].Gas > GasTx
        /\ gas[s] = tx[s].Gas - GasNeeded(tx[s])

(***************************************************************************)
(* C17: every successful transition leaves the sum of the balances of all  *)
(* stored accounts equal to the sum before the transition, whatever the    *)
(* sender, receiver and proposer addresses are.                            *)
(***************************************************************************)
RECURSIVE SumOver(_, _)
SumOver(t, as) ==
    IF as = {} THEN 0
    ELSE LET a == CHOOSE x \in as : TRUE
         IN  t[a].Amount + SumOver(t, as \ {a})

\* the sum of the balances of the stored accounts
TotalBalance(t) == SumOver(t, DOMAIN t)

C17_ValueConserved ==
    \A s \in Sessions :
        Succeeded(s) => TotalBalance(trie) = TotalBalance(preTrie[s])

(***************************************************************************)
(* C18: the proposer credit written in the gas purchase is not overwritten *)
(* by the final commit: after a successful transition the proposer's       *)
(* stored balance is its balance before, plus the fee gasLimit*gasPrice,   *)
(* minus its own debits when it is the sender, plus the value when it is   *)
(* the receiver.                                                           *)
(***************************************************************************)
\* what address a pays out / takes in as sender / receiver of t
DebitsOf(t, a) == IF a = t.sender THEN GasValue(t) + t.Value ELSE 0

CreditsOf(t, a) == IF a = ReceiverAddress(t) THEN t.Value ELSE 0

C18_ProposerCreditKept ==
    \A s \in Sessions :
        Succeeded(s) =>
            Balance(trie, coinbase[s])
              = Balance(preTrie[s], coinbase[s]) + GasValue(tx[s])
                - DebitsOf(tx[s], coinbase[s]) + CreditsOf(tx[s], coinbase[s])

(***************************************************************************)
(* C13: when the statements of two sessions that touch a common account    *)
(* interleave, a final store is reachable that neither serial order of the *)
(* two transitions produces; when the second session is created after the  *)
(* first has returned, the final store is one the serial order produces.   *)
(* Apply gives the stores one TransitionState call can leave, computed as  *)
(* one uninterrupted run of its statements.                                *)
(***************************************************************************)
Apply(t0, t, c) ==
    LET sender0 == GetAccount(t0, t.sender)
        sender1 == SubAmount([sender0 EXCEPT !.Nonce = @ + 1], GasValue(t))
        t1 == UpdateStateObject(
                  t0, ObjectBuyGas(GetAccount(t0, c), t.Gas, t.GasPrice))
        receiver1 == IF CreatesContract(t) THEN NewAccount(CreationAddress(t))
                     ELSE GetAccount(t1, t.Recipient)
        sender2 == SubAmount(sender1, t.Value)
        receiver2 == AddAmount(receiver1, t.Value)
        t2 == UpdateStateObject(t1, sender2)
        Out(store, e) == [store |-> store, err |-> e]
    IN  IF sender0.Nonce # t.Nonce THEN {Out(t0, "nonce")}
        ELSE IF sender0.Amount < GasValue(t) THEN {Out(t0, "gasfunds")}
        ELSE {Out(t0, "panic"), Out(t1, "panic")}
             \cup IF t.Gas < GasNeeded(t) THEN {Out(t1, "outofgas")}
                  ELSE (IF CreatesContract(t) THEN {Out(t1, "create")} ELSE {})
                       \cup IF sender1.Amount < t.Value
                            THEN {Out(t1, "valuefunds")}
                            ELSE (IF CreatesContract(t)
                                  THEN {Out(t1, "init")} ELSE {})
                                 \cup {Out(t2, "panic")}
                                 \cup {Out(UpdateStateObject(
                                               t2, [receiver2 EXCEPT !.script = code]),
                                           "none") :
                                          code \in IF CreatesContract(t) THEN Codes
                                                   ELSE {receiver2.script}}

\* the outcomes of the transition of session f followed by that of session l
InOrder(f, l) ==
    UNION {{[first |-> o.err, last |-> p.err, store |-> p.store] :
               p \in Apply(o.store, tx[l], coinbase[l])} :
           o \in Apply(Genesis, tx[f], coinbase[f])}

\* the stores a serial application of the two transitions can leave
SerialStores == {o.store : o \in InOrder("s1", "s2") \cup InOrder("s2", "s1")}

\* the accounts a session fetches and writes
Touched(s) == {tx[s].sender, ReceiverAddress(tx[s]), coinbase[s]}

BothDone == \A s \in Sessions : Done(s)

C13_SerialOutcome ==
    \A f, l \in Sessions :
        (f # l /\ BothDone /\ afterDone[l]) =>
            [first |-> err[f], last |-> err[l], store |-> trie] \in InOrder(f, l)

C13_Witness ==
    /\ BothDone
    /\ \A s \in Sessions : ~afterDone[s] /\ err[s] = "none"
    /\ Touched("s1") \cap Touched("s2") # {}
    /\ trie \notin SerialStores

(***************************************************************************)
(* C14: Connection.Read returns the next message: no call of Read ends in  *)
(* a fault, also when the network read times out or the bytes read hold no *)
(* complete, well-formed message.                                          *)
(***************************************************************************)
C14_ReadNeverFaults == ~readFault

(***************************************************************************)
(* C19: readMessage / ReadMessage return an error and never fault on a     *)
(* malformed buffer: when the length field declares more bytes than follow *)
(* the 8-byte header the result is the message-length error.               *)
(***************************************************************************)
C19_MalformedGivesError ==
    \A i \in DOMAIN parseLog :
        /\ parseLog[i].kind # "fault"
        /\ parseLog[i].declared > parseLog[i].available =>
              parseLog[i].kind = "length"

(***************************************************************************)
(* C20: the messages of the well-formed frames that lead the bytes         *)
(* gathered by one readMessages call are returned by successive Read calls *)
(* in their order on the wire, each exactly once, and Read reads from the  *)
(* network only while the pending queue is empty.                          *)
(***************************************************************************)
C20_QueueOrder ==
    /\ delivered \o pendingMessages = expected
    /\ rpc = "gather" => pendingMessages = <<>>

C20_Witness ==
    /\ Len(delivered) >= 2
    /\ delivered[1] # delivered[2]
    /\ pendingMessages = <<>>
    /\ delivered = expected
    /\ \E i \in DOMAIN parseLog : parseLog[i].kind = "magic"

====
